---- MODULE Spec2Model ----
(***************************************************************************)
(* hypr-showkey: the interactive display session (src/tui.rs), the line   *)
(* parser (src/parser.rs) and the program around them (src/main.rs).       *)
(*                                                                         *)
(* Three specifications share the variables: Spec is the session between   *)
(* App::new and the end of run_app, SpecParse is the parser on one line,   *)
(* SpecMain is main from the loading of the configuration to its return.   *)
(* Each holds the variables of the other two at rest.                      *)
(*                                                                         *)
(* The session object App owns the record list, the Filtered View, the     *)
(* live query, the flat cursor (list_state), the column count and one      *)
(* cursor per column (column_lists).  run_app is a loop: draw the frame    *)
(* (which recomputes the column count from the terminal width), block for  *)
(* one event, handle it, repeat.                                           *)
(*                                                                         *)
(* Strings are sequences of one-character strings.  An Option<usize> is a  *)
(* sequence of length at most one: None is << >>, Some(i) is <<i>>.        *)
(* Sequences are 1-based here and 0-based in the source; every index kept  *)
(* in the state (cursor values, original_index) is the source's 0-based    *)
(* value.                                                                  *)
(***************************************************************************)
EXTENDS Integers, Sequences, FiniteSets, TLC

VARIABLES
    keybindings,            \* App.keybindings: Vec<Keybinding>
    max_results,            \* App.config.ui.max_results
    filtered_keybindings,   \* App.filtered_keybindings: Vec<(usize, Keybinding)>
    search_query,           \* App.search_query
    list_state,             \* App.list_state.selected(): the flat cursor
    show_help,              \* App.show_help
    columns,                \* App.columns
    column_lists,           \* App.column_lists[c].selected(), c = 0..
    pc,                     \* position of run_app: "draw", "read" or "done"
    lastKey,                \* the key press handled by the last loop iteration
    categories,             \* config.categories, in iteration order
    line,                   \* the line parse_file's loop is at
    binding,                \* what the line added: None or Some(Keybinding)
    parse_pc,               \* "idle", "line" (to be parsed) or "parsed"
    files,                  \* config.hyprland_configs.files, as found on disk
    main_pc,                \* position of main: "idle", "load", .., "exit"
    resolved_paths,         \* resolve_hyprland_paths: resolved_paths
    path_idx,               \* parse: how many resolved paths were parsed
    records,                \* parse: the local keybindings
    parse_result,           \* what parse returned
    raw_mode,               \* the terminal is in raw mode
    alt_screen,             \* the terminal shows the alternate screen
    result,                 \* run: the result of run_app
    error                   \* the error main returns, "none" for Ok

vars == <<keybindings, max_results, filtered_keybindings, search_query,
          list_state, show_help, columns, column_lists, pc, lastKey>>

parsevars == <<categories, line, binding, parse_pc>>

mainvars == <<files, main_pc, resolved_paths, path_idx, records, parse_result,
              raw_mode, alt_screen, result, error>>

extvars == <<parsevars, mainvars>>

allvars == <<vars, extvars>>

(***************************************************************************)
(* Bounds of the model.                                                    *)
(***************************************************************************)
MaxRecords == 3        \* longest record list
MaxQueryLen == 2       \* longest live query
MaxMaxResults == 2     \* largest configured max_results
MaxColumns == 2        \* widest terminal, in columns

(***************************************************************************)
(* Option<usize>.                                                          *)
(***************************************************************************)
None == << >>
Some(i) == <<i>>
IsSome(o) == o /= << >>
Unwrap(o) == o[1]

(***************************************************************************)
(* The parser at rest: the display session starts (main.rs 32-34) after    *)
(* the parse pass returned (main.rs 27-30).                                *)
(***************************************************************************)
ParseIdle ==
    /\ categories = << >>
    /\ line = << >>
    /\ binding = None
    /\ parse_pc = "idle"

(***************************************************************************)
(* main inside app.run() (main.rs 34), the terminal set up (tui.rs 69-73). *)
(***************************************************************************)
MainIdle ==
    /\ files = << >>
    /\ main_pc = "idle"
    /\ resolved_paths = << >>
    /\ path_idx = 0
    /\ records = << >>
    /\ parse_result = [status |-> "pending", keybindings |-> << >>]
    /\ raw_mode = TRUE
    /\ alt_screen = TRUE
    /\ result = "pending"
    /\ error = "none"

ExtIdle == ParseIdle /\ MainIdle

(***************************************************************************)
(* No display session: main before App::new (main.rs 22-31).               *)
(***************************************************************************)
NoSession ==
    /\ keybindings = << >>
    /\ max_results = 0
    /\ filtered_keybindings = << >>
    /\ search_query = << >>
    /\ list_state = None
    /\ show_help = FALSE
    /\ columns = 1
    /\ column_lists = <<None>>
    /\ pc = "none"
    /\ lastKey = "none"

(***************************************************************************)
(* Keybinding records (parser.rs).  The display session reads key, action  *)
(* and description for matching.  The two records of the pool score        *)
(* differently against the queries "a" and "b" (each ranks first for one   *)
(* of them), only the first matches "ab", "aa" or "bb", and a record       *)
(* listed twice ties with itself.                                          *)
(***************************************************************************)
Keybinding(k, a, d) == [key |-> k, action |-> a, description |-> d]

RecordPool ==
    { Keybinding(<<"a">>, <<"b">>, <<"a", "b">>),
      Keybinding(<<"b">>, <<"a">>, << >>) }

RECURSIVE SeqsUpTo(_, _)
SeqsUpTo(S, n) ==
    IF n = 0 THEN { << >> }
    ELSE LET shorter == SeqsUpTo(S, n - 1)
         IN shorter \cup { Append(s, x) : s \in { t \in shorter : Len(t) = n - 1 }, x \in S }

(***************************************************************************)
(* Terminal widths offered to a draw: both sides of every column           *)
(* threshold, and the widths below the margin.                             *)
(***************************************************************************)
min_column_width == 50
margin == 4
TermWidths ==
    {0, margin - 1, margin} \cup
    { c * min_column_width + margin + d : c \in 1..MaxColumns, d \in {-1, 0} }

(***************************************************************************)
(* Keys.  A character key is a one-character string; the rest are the      *)
(* KeyCode variants run_app names, and "Other" for any key it does not.    *)
(***************************************************************************)
QueryChars == {"a", "b"}
CharKeys == QueryChars \cup {"q", "?", "j", "k"}
NamedKeys == {"Esc", "F1", "Down", "Up", "Backspace", "Enter", "Other"}
Keys == CharKeys \cup NamedKeys

(***************************************************************************)
(* The fuzzy matcher.  filter_keybindings calls SkimMatcherV2::fuzzy_match *)
(* (crate fuzzy_matcher) on the search text and the query; the matcher is  *)
(* not code of this repository, so it is modelled by its contract: the     *)
(* result is None unless the query is a subsequence of the text, and       *)
(* otherwise Some(score), the best score over all alignments, where a      *)
(* matched character scores 16, plus 8 at the head of a word, plus 4 when  *)
(* it directly follows the previous matched character, minus 1 for every   *)
(* text character skipped before it.  It has no state: the same text and   *)
(* query always give the same result.                                      *)
(***************************************************************************)
search_text(kb) == kb.key \o <<" ">> \o kb.action \o <<" ">> \o kb.description

\* What matching pattern[i] at text position p adds, the previous pattern
\* character having matched at position prev (0 when i = 1).
MatchGain(text, i, p, prev) ==
    LET head == IF p = 1 \/ text[p - 1] = " " THEN 8 ELSE 0
        consecutive == IF i > 1 /\ p = prev + 1 THEN 4 ELSE 0
        gap == p - prev - 1
    IN 16 + head + consecutive - gap

SetMax(S) == CHOOSE x \in S : \A y \in S : y <= x

\* The best score of matching pattern[i..] in the text after position prev.
RECURSIVE BestScore(_, _, _, _)
BestScore(text, pattern, i, prev) ==
    IF i > Len(pattern) THEN Some(0)
    ELSE LET rest == [p \in (prev + 1)..Len(text) |->
                        IF text[p] = pattern[i]
                        THEN BestScore(text, pattern, i + 1, p)
                        ELSE None]
             at == { p \in (prev + 1)..Len(text) : IsSome(rest[p]) }
         IN IF at = {} THEN None
            ELSE Some(SetMax({ MatchGain(text, i, p, prev) + Unwrap(rest[p]) : p \in at }))

fuzzy_match(text, pattern) == BestScore(text, pattern, 1, 0)

(***************************************************************************)
(* filter_keybindings, the view it computes (tui.rs 152-182).              *)
(***************************************************************************)
\* .iter().enumerate().map(|(i, kb)| (i, kb.clone())).collect()
IdentityView(kbs) == [n \in 1..Len(kbs) |-> <<n - 1, kbs[n]>>]

\* .iter().enumerate().filter_map(...): the matching records with their
\* original index and score, in record order.
RECURSIVE Matches(_, _, _)
Matches(kbs, query, n) ==
    IF n = 0 THEN << >>
    ELSE LET score == fuzzy_match(search_text(kbs[n]), query)
             rest == Matches(kbs, query, n - 1)
         IN IF IsSome(score) THEN Append(rest, <<n - 1, kbs[n], Unwrap(score)>>)
            ELSE rest

\* Mutant of InsertByScore: the comparison the other way round, which sorts
\* by ascending score.
RECURSIVE InsertByScoreAscending(_, _)
InsertByScoreAscending(sorted, x) ==
    IF sorted = << >> THEN <<x>>
    ELSE IF sorted[Len(sorted)][3] <= x[3] THEN Append(sorted, x)
    ELSE Append(InsertByScoreAscending(SubSeq(sorted, 1, Len(sorted) - 1), x),
                sorted[Len(sorted)])

\* matches.sort_by(|a, b| b.2.cmp(&a.2)): a stable sort, descending score.
\* InsertByScore puts x after every element that does not score lower.
RECURSIVE InsertByScore(_, _)
InsertByScore(sorted, x) ==
    IF sorted = << >> THEN <<x>>
    ELSE IF sorted[Len(sorted)][3] >= x[3] THEN Append(sorted, x)
    ELSE Append(InsertByScore(SubSeq(sorted, 1, Len(sorted) - 1), x), sorted[Len(sorted)])

RECURSIVE SortByScore(_, _)
SortByScore(m, n) ==
    IF n = 0 THEN << >> ELSE InsertByScore(SortByScore(m, n - 1), m[n])

\* Mutant of Take: an off-by-one that lets one entry too many through.
TakeOneMore(s, n) == SubSeq(s, 1, IF n + 1 < Len(s) THEN n + 1 ELSE Len(s))

\* .into_iter().take(n)
Take(s, n) == SubSeq(s, 1, IF n < Len(s) THEN n ELSE Len(s))

\* Mutant of DropScore: the entries numbered by their place in the view.
DropScoreRenumbered(m) == [n \in 1..Len(m) |-> <<n - 1, m[n][2]>>]

\* .map(|(i, kb, _)| (i, kb))
DropScore(m) == [n \in 1..Len(m) |-> <<m[n][1], m[n][2]>>]

\* Mutant of FilteredView: the cap applied to the empty query's view too.
FilteredViewCapped(query) ==
    IF query = << >> THEN SubSeq(IdentityView(keybindings), 1,
                                 IF max_results < Len(keybindings)
                                 THEN max_results ELSE Len(keybindings))
    ELSE LET m == Matches(keybindings, query, Len(keybindings))
         IN DropScore(SubSeq(SortByScore(m, Len(m)), 1,
                             IF max_results < Len(m) THEN max_results ELSE Len(m)))

\* Mutant of FilteredView: a non-empty query narrows the view held so far
\* instead of filtering the whole record list.
RECURSIVE MatchesOfView(_, _, _)
MatchesOfView(view, query, n) ==
    IF n = 0 THEN << >>
    ELSE LET score == fuzzy_match(search_text(view[n][2]), query)
             rest == MatchesOfView(view, query, n - 1)
         IN IF IsSome(score) THEN Append(rest, <<view[n][1], view[n][2], Unwrap(score)>>)
            ELSE rest

FilteredViewIncremental(query) ==
    IF query = << >> THEN IdentityView(keybindings)
    ELSE LET m == MatchesOfView(filtered_keybindings, query, Len(filtered_keybindings))
         IN DropScore(SubSeq(SortByScore(m, Len(m)), 1,
                             IF max_results < Len(m) THEN max_results ELSE Len(m)))

RankedMatches(query) ==
    LET m == Matches(keybindings, query, Len(keybindings))
    IN SortByScore(m, Len(m))

FilteredView(query) ==
    IF query = << >> THEN IdentityView(keybindings)
    ELSE DropScore(Take(RankedMatches(query), max_results))

\* Mutant of FilterCursor: the first entry selected without looking at the
\* view, as App::new does.
FilterCursorAlwaysFirst(view) == Some(0)

\* The selection filter_keybindings leaves (tui.rs 184-196).
FilterCursor(view) == IF view /= << >> THEN Some(0) ELSE None

FilterColumnLists(view, lists) ==
    [c \in 1..Len(lists) |-> IF c = 1 /\ view /= << >> THEN Some(0) ELSE None]

(***************************************************************************)
(* The column layout (tui.rs 135-150, 199-245).                            *)
(***************************************************************************)
\* (terminal_width as usize).saturating_sub(4) / min_column_width).max(1)
\* Mutant of saturating_sub: the subtraction wraps around in 16 bits.
wrapping_sub(a, b) == (a - b) % 65536

saturating_sub(a, b) == IF a >= b THEN a - b ELSE 0

\* Mutant of ColumnsFor: the quotient without the floor of one column.
ColumnsForUnclamped(terminal_width) ==
    saturating_sub(terminal_width, margin) \div min_column_width

ColumnsFor(terminal_width) ==
    LET q == saturating_sub(terminal_width, margin) \div min_column_width
    IN IF q >= 1 THEN q ELSE 1

\* Mutant of get_items_per_column: the quotient rounded down.
get_items_per_column_floor(len, cols) ==
    IF cols = 0 THEN 0 ELSE len \div cols

get_items_per_column(len, cols) ==
    IF cols = 0 THEN 0 ELSE (len + cols - 1) \div cols

get_current_column(sel, len, cols) ==
    IF IsSome(sel) /\ get_items_per_column(len, cols) > 0
    THEN Unwrap(sel) \div get_items_per_column(len, cols)
    ELSE 0

get_current_row_in_column(sel, len, cols) ==
    IF IsSome(sel) /\ get_items_per_column(len, cols) > 0
    THEN Unwrap(sel) % get_items_per_column(len, cols)
    ELSE 0

\* Mutant of update_column_selection: the other columns are not cleared.
update_column_selection_keeps_others(sel, len, cols, lists) ==
    [c \in 1..Len(lists) |->
        IF c - 1 = get_current_column(sel, len, cols)
        THEN Some(get_current_row_in_column(sel, len, cols))
        ELSE lists[c]]

\* update_column_selection: clear every column, then select the current row
\* in the current column if that column exists.
update_column_selection(sel, len, cols, lists) ==
    [c \in 1..Len(lists) |->
        IF c - 1 = get_current_column(sel, len, cols)
        THEN Some(get_current_row_in_column(sel, len, cols))
        ELSE None]

\* calculate_columns: the column cursors after a draw at this column count.
\* Mutant of CalculatedColumnLists: the first column selected for an empty
\* view too.
CalculatedColumnListsAlwaysFirst(new_columns, view, lists) ==
    IF new_columns /= columns
    THEN [c \in 1..new_columns |-> IF c = 1 THEN Some(0) ELSE None]
    ELSE lists

CalculatedColumnLists(new_columns, view, lists) ==
    IF new_columns /= columns
    THEN [c \in 1..new_columns |-> IF c = 1 /\ view /= << >> THEN Some(0) ELSE None]
    ELSE lists

(***************************************************************************)
(* Navigation (tui.rs 247-283): the index next and previous select in a    *)
(* non-empty view.                                                         *)
(***************************************************************************)
NextIndex(sel, len) ==
    IF IsSome(sel) THEN (IF Unwrap(sel) >= len - 1 THEN 0 ELSE Unwrap(sel) + 1) ELSE 0

PreviousIndex(sel, len) ==
    IF IsSome(sel) THEN (IF Unwrap(sel) = 0 THEN len - 1 ELSE Unwrap(sel) - 1) ELSE 0

(***************************************************************************)
(* App::new (tui.rs 36-54).                                                *)
(***************************************************************************)
Init ==
    /\ keybindings \in SeqsUpTo(RecordPool, MaxRecords)
    /\ max_results \in 0..MaxMaxResults
    /\ filtered_keybindings = IdentityView(keybindings)
    /\ search_query = << >>
    /\ list_state = Some(0)
    /\ show_help = FALSE
    /\ columns = 1
    /\ column_lists = <<Some(0)>>
    /\ pc = "draw"
    /\ lastKey = "none"
    /\ ExtIdle

(***************************************************************************)
(* ui (tui.rs 285-292), the state it changes: with the help overlay shown  *)
(* it renders the overlay and returns; otherwise it calls                  *)
(* calculate_columns with the width of the frame.  The terminal may have   *)
(* any width at any draw.  What the widgets of the ratatui crate do to a   *)
(* ListState while rendering it (the scroll offset, for instance) is not   *)
(* code of this repository and is not modelled.                            *)
(***************************************************************************)
DrawHelp ==
    /\ pc = "draw"
    /\ show_help
    /\ pc' = "read"
    /\ lastKey' = "none"
    /\ UNCHANGED extvars
    /\ UNCHANGED <<keybindings, max_results, filtered_keybindings, search_query,
                   list_state, show_help, columns, column_lists>>

DrawMain(terminal_width) ==
    /\ pc = "draw"
    /\ ~show_help
    /\ columns' = ColumnsFor(terminal_width)
    /\ column_lists' =
          CalculatedColumnLists(ColumnsFor(terminal_width), filtered_keybindings, column_lists)
    /\ pc' = "read"
    /\ lastKey' = "none"
    /\ UNCHANGED extvars
    /\ UNCHANGED <<keybindings, max_results, filtered_keybindings, search_query,
                   list_state, show_help>>

\* Mutant of Arm: the quit arm without its guard, so that q and Esc end the
\* loop while the help overlay is shown too.
ArmQuitUnguarded(k) ==
    CASE k \in {"q", "Esc"} -> "quit"
      [] k \in {"?", "F1"} -> "toggle_help"
      [] k \in {"Down", "j"} /\ ~show_help -> "next"
      [] k \in {"Up", "k"} /\ ~show_help -> "previous"
      [] k \in CharKeys /\ ~show_help -> "char"
      [] k = "Backspace" /\ ~show_help -> "backspace"
      [] k = "Enter" /\ ~show_help -> "enter"
      [] OTHER -> "ignored"

(***************************************************************************)
(* run_app's match on the key code (tui.rs 96-128).  Arm(k) is the first   *)
(* arm whose pattern and guard accept key k, in source order.              *)
(***************************************************************************)
Arm(k) ==
    CASE k \in {"q", "Esc"} /\ ~show_help -> "quit"
      [] k \in {"?", "F1"} -> "toggle_help"
      [] k = "Esc" /\ show_help -> "close_help"
      [] k \in {"Down", "j"} /\ ~show_help -> "next"
      [] k \in {"Up", "k"} /\ ~show_help -> "previous"
      [] k \in CharKeys /\ ~show_help -> "char"
      [] k = "Backspace" /\ ~show_help -> "backspace"
      [] k = "Enter" /\ ~show_help -> "enter"
      [] OTHER -> "ignored"

\* filter_keybindings (tui.rs 152-197) for the query as just edited.
filter_keybindings(query) ==
    /\ filtered_keybindings' = FilteredView(query)
    /\ list_state' = FilterCursor(FilteredView(query))
    /\ column_lists' = FilterColumnLists(FilteredView(query), column_lists)

KeyQuit(k) ==
    /\ pc = "read"
    /\ Arm(k) = "quit"
    /\ pc' = "done"
    /\ lastKey' = k
    /\ UNCHANGED extvars
    /\ UNCHANGED <<keybindings, max_results, filtered_keybindings, search_query,
                   list_state, show_help, columns, column_lists>>

KeyToggleHelp(k) ==
    /\ pc = "read"
    /\ Arm(k) = "toggle_help"
    /\ show_help' = ~show_help
    /\ pc' = "draw"
    /\ lastKey' = k
    /\ UNCHANGED extvars
    /\ UNCHANGED <<keybindings, max_results, filtered_keybindings, search_query,
                   list_state, columns, column_lists>>

KeyCloseHelp(k) ==
    /\ pc = "read"
    /\ Arm(k) = "close_help"
    /\ show_help' = FALSE
    /\ pc' = "draw"
    /\ lastKey' = k
    /\ UNCHANGED extvars
    /\ UNCHANGED <<keybindings, max_results, filtered_keybindings, search_query,
                   list_state, columns, column_lists>>

\* next (tui.rs 247-264)
KeyNext(k) ==
    /\ pc = "read"
    /\ Arm(k) = "next"
    /\ IF filtered_keybindings = << >>
       THEN UNCHANGED <<list_state, column_lists>>
       ELSE /\ list_state' = Some(NextIndex(list_state, Len(filtered_keybindings)))
            /\ column_lists' = update_column_selection(
                   Some(NextIndex(list_state, Len(filtered_keybindings))),
                   Len(filtered_keybindings), columns, column_lists)
    /\ pc' = "draw"
    /\ lastKey' = k
    /\ UNCHANGED extvars
    /\ UNCHANGED <<keybindings, max_results, filtered_keybindings, search_query,
                   show_help, columns>>

\* previous (tui.rs 266-283)
KeyPrevious(k) ==
    /\ pc = "read"
    /\ Arm(k) = "previous"
    /\ IF filtered_keybindings = << >>
       THEN UNCHANGED <<list_state, column_lists>>
       ELSE /\ list_state' = Some(PreviousIndex(list_state, Len(filtered_keybindings)))
            /\ column_lists' = update_column_selection(
                   Some(PreviousIndex(list_state, Len(filtered_keybindings))),
                   Len(filtered_keybindings), columns, column_lists)
    /\ pc' = "draw"
    /\ lastKey' = k
    /\ UNCHANGED extvars
    /\ UNCHANGED <<keybindings, max_results, filtered_keybindings, search_query,
                   show_help, columns>>

\* Mutant of PushedQuery: the character goes to the front of the query.
PushedQueryFront(query, c) == <<c>> \o query

\* self.search_query.push(c); self.filter_keybindings();
PushedQuery(query, c) == Append(query, c)

KeyChar(k) ==
    /\ pc = "read"
    /\ Arm(k) = "char"
    /\ Len(search_query) < MaxQueryLen
    /\ search_query' = PushedQuery(search_query, k)
    /\ filter_keybindings(PushedQuery(search_query, k))
    /\ pc' = "draw"
    /\ lastKey' = k
    /\ UNCHANGED extvars
    /\ UNCHANGED <<keybindings, max_results, show_help, columns>>

\* self.search_query.pop(); self.filter_keybindings();
PoppedQuery(query) ==
    IF query = << >> THEN << >> ELSE SubSeq(query, 1, Len(query) - 1)

KeyBackspace(k) ==
    /\ pc = "read"
    /\ Arm(k) = "backspace"
    /\ search_query' = PoppedQuery(search_query)
    /\ filter_keybindings(PoppedQuery(search_query))
    /\ pc' = "draw"
    /\ lastKey' = k
    /\ UNCHANGED extvars
    /\ UNCHANGED <<keybindings, max_results, show_help, columns>>

\* Enter changes nothing (it continues the loop or falls through).
KeyEnter(k) ==
    /\ pc = "read"
    /\ Arm(k) = "enter"
    /\ pc' = "draw"
    /\ lastKey' = k
    /\ UNCHANGED extvars
    /\ UNCHANGED <<keybindings, max_results, filtered_keybindings, search_query,
                   list_state, show_help, columns, column_lists>>

\* Any other key, and any key the help overlay suspends.
KeyIgnored(k) ==
    /\ pc = "read"
    /\ Arm(k) = "ignored"
    /\ pc' = "draw"
    /\ lastKey' = k
    /\ UNCHANGED extvars
    /\ UNCHANGED <<keybindings, max_results, filtered_keybindings, search_query,
                   list_state, show_help, columns, column_lists>>

\* An event that is not a key press (a resize, a mouse event, a key release).
NonKeyEvent ==
    /\ pc = "read"
    /\ pc' = "draw"
    /\ lastKey' = "none"
    /\ UNCHANGED extvars
    /\ UNCHANGED <<keybindings, max_results, filtered_keybindings, search_query,
                   list_state, show_help, columns, column_lists>>

Next ==
    \/ DrawHelp
    \/ \E w \in TermWidths : DrawMain(w)
    \/ \E k \in Keys : KeyQuit(k)
    \/ \E k \in Keys : KeyToggleHelp(k)
    \/ \E k \in Keys : KeyCloseHelp(k)
    \/ \E k \in Keys : KeyNext(k)
    \/ \E k \in Keys : KeyPrevious(k)
    \/ \E k \in Keys : KeyChar(k)
    \/ \E k \in Keys : KeyBackspace(k)
    \/ \E k \in Keys : KeyEnter(k)
    \/ \E k \in Keys : KeyIgnored(k)
    \/ NonKeyEvent

Spec == Init /\ [][Next]_allvars

(***************************************************************************)
(* Strings of the parser (parser.rs): the std::str operations it uses, on  *)
(* sequences of one-character strings.                                     *)
(***************************************************************************)
WhiteSpace == {" ", "\t"}

RECURSIVE trim_start(_)
trim_start(s) ==
    IF s /= << >> /\ Head(s) \in WhiteSpace THEN trim_start(Tail(s)) ELSE s

RECURSIVE trim_end(_)
trim_end(s) ==
    IF s /= << >> /\ s[Len(s)] \in WhiteSpace
    THEN trim_end(SubSeq(s, 1, Len(s) - 1))
    ELSE s

trim(s) == trim_end(trim_start(s))

starts_with(s, p) == Len(s) >= Len(p) /\ SubSeq(s, 1, Len(p)) = p

strip_prefix(s, p) == SubSeq(s, Len(p) + 1, Len(s))

contains(s, p) ==
    \E i \in 1..(Len(s) - Len(p) + 1) : SubSeq(s, i, i + Len(p) - 1) = p

\* str::find(char): the 0-based position of the first occurrence.
find(s, ch) ==
    LET hits == { i \in 1..Len(s) : s[i] = ch }
    IN IF hits = {} THEN None
       ELSE Some((CHOOSE i \in hits : \A j \in hits : i <= j) - 1)

RECURSIVE replace(_, _, _)
replace(s, from, to) ==
    IF s = << >> THEN << >>
    ELSE IF starts_with(s, from)
         THEN to \o replace(strip_prefix(s, from), from, to)
         ELSE <<Head(s)>> \o replace(Tail(s), from, to)

RECURSIVE SplitWhitespaceFrom(_, _, _)
SplitWhitespaceFrom(s, parts, current) ==
    IF s = << >>
    THEN IF current = << >> THEN parts ELSE Append(parts, current)
    ELSE IF Head(s) \in WhiteSpace
         THEN SplitWhitespaceFrom(Tail(s),
                  IF current = << >> THEN parts ELSE Append(parts, current),
                  << >>)
         ELSE SplitWhitespaceFrom(Tail(s), parts, Append(current, Head(s)))

split_whitespace(s) == SplitWhitespaceFrom(s, << >>, << >>)

RECURSIVE join(_, _)
join(parts, sep) ==
    IF parts = << >> THEN << >>
    ELSE IF Len(parts) = 1 THEN parts[1]
    ELSE parts[1] \o sep \o join(Tail(parts), sep)

UpperCase == <<"A", "B", "C", "D", "E", "F", "G", "H", "I", "J", "K", "L", "M", "N", "O", "P", "Q", "R", "S", "T", "U", "V", "W", "X", "Y", "Z">>
LowerCase == <<"a", "b", "c", "d", "e", "f", "g", "h", "i", "j", "k", "l", "m", "n", "o", "p", "q", "r", "s", "t", "u", "v", "w", "x", "y", "z">>

to_lowercase(s) ==
    [ i \in 1..Len(s) |->
        IF \E n \in 1..Len(UpperCase) : UpperCase[n] = s[i]
        THEN LowerCase[CHOOSE n \in 1..Len(UpperCase) : UpperCase[n] = s[i]]
        ELSE s[i] ]

(***************************************************************************)
(* split_bind_parts (parser.rs 154-192): one pass over the characters      *)
(* with the quote flag and the parenthesis depth; a field is pushed,       *)
(* trimmed, only when it is not blank.                                     *)
(***************************************************************************)
\* Mutant of PushPart: a blank field is pushed too.
PushPartKeepingBlank(parts, current) == Append(parts, trim(current))

PushPart(parts, current) ==
    IF trim(current) /= << >> THEN Append(parts, trim(current)) ELSE parts

\* Mutant of IsDelimiter: every comma delimits.
IsDelimiterAnywhere(ch, in_quotes, paren_depth) == ch = ","

IsDelimiter(ch, in_quotes, paren_depth) ==
    ch = "," /\ ~in_quotes /\ paren_depth = 0

RECURSIVE SplitFrom(_, _, _, _, _, _)
SplitFrom(content, i, parts, current, in_quotes, paren_depth) ==
    IF i > Len(content) THEN PushPart(parts, current)
    ELSE LET ch == content[i]
         IN CASE ch = "\"" ->
                   SplitFrom(content, i + 1, parts, Append(current, ch),
                             ~in_quotes, paren_depth)
              [] ch = "(" ->
                   SplitFrom(content, i + 1, parts, Append(current, ch),
                             in_quotes, paren_depth + 1)
              [] ch = ")" ->
                   SplitFrom(content, i + 1, parts, Append(current, ch),
                             in_quotes, paren_depth - 1)
              [] IsDelimiter(ch, in_quotes, paren_depth) ->
                   SplitFrom(content, i + 1, PushPart(parts, current), << >>,
                             in_quotes, paren_depth)
              [] OTHER ->
                   SplitFrom(content, i + 1, parts, Append(current, ch),
                             in_quotes, paren_depth)

split_bind_parts(content) == SplitFrom(content, 1, << >>, << >>, FALSE, 0)

(***************************************************************************)
(* format_key_combination (parser.rs 194-218).                             *)
(***************************************************************************)
\* Mutant of JoinKey: the key first, the modifiers after it.
JoinKeyFirst(parts) ==
    parts[Len(parts)] \o <<" ", "+", " ">> \o join(SubSeq(parts, 1, Len(parts) - 1), <<" ", "+", " ">>)

JoinKey(parts) ==
    join(SubSeq(parts, 1, Len(parts) - 1), <<" ", "+", " ">>) \o <<" ", "+", " ">> \o parts[Len(parts)]

format_key_combination(modifiers_and_key) ==
    LET formatted == replace(replace(modifiers_and_key, <<"$", "m", "a", "i", "n", "M", "o", "d">>, <<"S", "u", "p", "e", "r">>),
                             <<"$", "s", "h", "i", "f", "t", "M", "o", "d">>, <<"S", "h", "i", "f", "t">>)
        parts == split_whitespace(formatted)
    IN IF parts = << >> THEN <<"U", "n", "k", "n", "o", "w", "n">>
       ELSE IF Len(parts) = 1 THEN parts[1]
       ELSE JoinKey(parts)

(***************************************************************************)
(* generate_description (parser.rs 220-246).                               *)
(***************************************************************************)
generate_description(action, params) ==
    CASE action = <<"e", "x", "e", "c">> ->
           IF contains(params, <<"t", "e", "r", "m", "i", "n", "a", "l">>) THEN <<"O", "p", "e", "n", " ", "t", "e", "r", "m", "i", "n", "a", "l">>
           ELSE IF contains(params, <<"b", "r", "o", "w", "s", "e", "r">>) THEN <<"O", "p", "e", "n", " ", "b", "r", "o", "w", "s", "e", "r">>
           ELSE IF contains(params, <<"f", "i", "l", "e", "m", "a", "n", "a", "g", "e", "r">>) THEN <<"O", "p", "e", "n", " ", "f", "i", "l", "e", " ", "m", "a", "n", "a", "g", "e", "r">>
           ELSE <<"E", "x", "e", "c", "u", "t", "e", ":", " ">> \o params
      [] action = <<"k", "i", "l", "l", "a", "c", "t", "i", "v", "e">> -> <<"K", "i", "l", "l", " ", "a", "c", "t", "i", "v", "e", " ", "w", "i", "n", "d", "o", "w">>
      [] action = <<"f", "u", "l", "l", "s", "c", "r", "e", "e", "n">> ->
           IF params = <<"0">> THEN <<"T", "o", "g", "g", "l", "e", " ", "f", "u", "l", "l", "s", "c", "r", "e", "e", "n">> ELSE <<"M", "a", "x", "i", "m", "i", "z", "e", " ", "w", "i", "n", "d", "o", "w">>
      [] action = <<"t", "o", "g", "g", "l", "e", "f", "l", "o", "a", "t", "i", "n", "g">> -> <<"T", "o", "g", "g", "l", "e", " ", "f", "l", "o", "a", "t", "i", "n", "g", " ", "m", "o", "d", "e">>
      [] action = <<"w", "o", "r", "k", "s", "p", "a", "c", "e">> -> <<"S", "w", "i", "t", "c", "h", " ", "t", "o", " ", "w", "o", "r", "k", "s", "p", "a", "c", "e", " ">> \o params
      [] action = <<"m", "o", "v", "e", "t", "o", "w", "o", "r", "k", "s", "p", "a", "c", "e">> -> <<"M", "o", "v", "e", " ", "w", "i", "n", "d", "o", "w", " ", "t", "o", " ", "w", "o", "r", "k", "s", "p", "a", "c", "e", " ">> \o params
      [] OTHER -> trim(action \o <<" ">> \o params)

(***************************************************************************)
(* determine_category (parser.rs 248-260).  cats is config.categories in   *)
(* the order the HashMap iterates it in this run.                          *)
(***************************************************************************)
\* Mutant of CategoryMatches: the keyword compared as written.
CategoryMatchesCaseSensitive(category, category_text) ==
    \E n \in 1..Len(category.keywords) :
        contains(category_text, category.keywords[n])

CategoryMatches(category, category_text) ==
    \E n \in 1..Len(category.keywords) :
        contains(category_text, to_lowercase(category.keywords[n]))

determine_category(action, params, description, cats) ==
    LET category_text == to_lowercase(action \o <<" ">> \o params \o <<" ">> \o description)
        hits == { n \in 1..Len(cats) : CategoryMatches(cats[n], category_text) }
    IN IF hits = {} THEN <<"O", "t", "h", "e", "r">>
       ELSE cats[CHOOSE n \in hits : \A m \in hits : n <= m].name

(***************************************************************************)
(* parse_bind_line (parser.rs 59-152).                                     *)
(***************************************************************************)
ParsedKeybinding(k, a, d, c, r) ==
    [key |-> k, action |-> a, description |-> d, category |-> c, raw_command |-> r]

\* Mutant of BindPart: a marker that opens the line is skipped.
BindPartUncommented(l) ==
    LET body == IF starts_with(l, <<"#">>) THEN trim(Tail(l)) ELSE l
        comment_pos == find(body, "#")
    IN IF IsSome(comment_pos) THEN trim(SubSeq(body, 1, Unwrap(comment_pos))) ELSE body

\* The line up to its first '#', trimmed (parser.rs 61-67).
BindPart(l) ==
    LET comment_pos == find(l, "#")
    IN IF IsSome(comment_pos) THEN trim(SubSeq(l, 1, Unwrap(comment_pos))) ELSE l

\* The text after the first '#', trimmed, when there is one (parser.rs 61-67).
Comment(l) ==
    LET comment_pos == find(l, "#")
    IN IF IsSome(comment_pos)
       THEN Some(trim(SubSeq(l, Unwrap(comment_pos) + 2, Len(l))))
       ELSE None

\* Mutant of BindContent: only the plain keyword is stripped.
BindContentPlainOnly(bind_part) ==
    LET bind_content == trim(strip_prefix(bind_part, <<"b", "i", "n", "d">>))
    IN IF starts_with(bind_content, <<"=">>) THEN trim(Tail(bind_content))
       ELSE bind_content

\* What follows the keyword and the '=' sign (parser.rs 80-94).
BindContent(bind_part) ==
    LET after_bind ==
            IF starts_with(bind_part, <<"b", "i", "n", "d", "e">>) THEN strip_prefix(bind_part, <<"b", "i", "n", "d", "e">>)
            ELSE IF starts_with(bind_part, <<"b", "i", "n", "d", "m">>) THEN strip_prefix(bind_part, <<"b", "i", "n", "d", "m">>)
            ELSE strip_prefix(bind_part, <<"b", "i", "n", "d">>)
        bind_content == trim(after_bind)
    IN IF starts_with(bind_content, <<"=">>) THEN trim(Tail(bind_content))
       ELSE bind_content

Params(parts) ==
    IF Len(parts) > 3 THEN trim(join(SubSeq(parts, 4, Len(parts)), <<",">>)) ELSE << >>

ModifiersAndKey(modifiers, key) ==
    IF modifiers = << >> THEN key ELSE modifiers \o <<" ">> \o key

\* Mutant of FullAction: the params where the action belongs.
FullActionFromParams(action, params) ==
    IF params = << >> THEN params ELSE action \o <<",", " ">> \o params

FullAction(action, params) ==
    IF params = << >> THEN action ELSE action \o <<",", " ">> \o params

\* Mutant of IsBindCommand: the keyword looked for anywhere in the line.
IsBindCommandAnywhere(bind_part) == contains(bind_part, <<"b", "i", "n", "d">>)

\* The two keyword tests (parser.rs 70-77).
IsBindCommand(bind_part) ==
    starts_with(bind_part, <<"b", "i", "n", "d">>) /\ ~starts_with(bind_part, <<"u", "n", "b", "i", "n", "d">>)

parse_bind_line(l, cats) ==
    LET bind_part == BindPart(l)
        comment == Comment(l)
    IN IF ~IsBindCommand(bind_part) THEN None
       ELSE
         LET bind_content == BindContent(bind_part)
             parts == split_bind_parts(bind_content)
         IN IF Len(parts) < 3 THEN None
            ELSE
              LET modifiers == trim(parts[1])
                  key == trim(parts[2])
                  action == trim(parts[3])
                  params == Params(parts)
                  description ==
                      IF IsSome(comment) THEN Unwrap(comment)
                      ELSE generate_description(action, params)
              IN IF action = << >> THEN None
                 ELSE Some(ParsedKeybinding(
                          format_key_combination(ModifiersAndKey(modifiers, key)),
                          FullAction(action, params),
                          description,
                          determine_category(action, params, description, cats),
                          <<"b", "i", "n", "d", " ", "=", " ">> \o bind_content))

(***************************************************************************)
(* The body of parse_file's loop over the lines (parser.rs 43-54): the     *)
(* records, none or one, that a line adds.                                 *)
(***************************************************************************)
ParseFileLine(raw, cats) ==
    LET l == trim(raw)
    IN IF l = << >> \/ (starts_with(l, <<"#">>) /\ ~contains(l, <<"b", "i", "n", "d">>)) THEN None
       ELSE parse_bind_line(l, cats)

(***************************************************************************)
(* The parser on one line.  The lines offered are the lines quoted in the  *)
(* specification, every body of up to MaxFields fields of the pool after   *)
(* the plain keyword, and every keyword form before a few bodies, with     *)
(* and without a trailing comment.  The pool has a blank field, a plain    *)
(* one, one of two tokens with a placeholder, one with a comma in quotes,  *)
(* one with a comma in parentheses and one with a stray ')'.               *)
(***************************************************************************)
MaxFields == 4         \* most fields of a generated body

FieldPool ==
    { <<" ">>, <<" ", "Q">>, <<" ", "$", "m", "a", "i", "n", "M", "o", "d", " ", "S">>, <<" ", "\"", "a", ",", "b", "\"">>, <<" ", "f", "(", "a", ",", "b", ")">>, <<" ", "x", ")">> }

Bodies == { join(fs, <<",">>) : fs \in SeqsUpTo(FieldPool, MaxFields) }

ExampleLines ==
    { <<"b", "i", "n", "d", " ", "=", " ", "S", "U", "P", "E", "R", " ", "S", "H", "I", "F", "T", ",", " ", "Q", ",", " ", "k", "i", "l", "l", "a", "c", "t", "i", "v", "e">>,
      <<"b", "i", "n", "d", " ", "=", " ", "$", "m", "a", "i", "n", "M", "o", "d", ",", " ", "R", "e", "t", "u", "r", "n", ",", " ", "e", "x", "e", "c", ",", " ", "k", "i", "t", "t", "y", " ", "#", " ", "O", "p", "e", "n", " ", "t", "e", "r", "m", "i", "n", "a", "l">>,
      <<"b", "i", "n", "d", " ", "=", " ", ",", " ", "E", "s", "c", "a", "p", "e", ",", " ", "k", "i", "l", "l", "a", "c", "t", "i", "v", "e">>,
      <<"b", "i", "n", "d", " ", "=", " ", "S", "U", "P", "E", "R", ",", " ", "R", ",", " ", "e", "x", "e", "c", ",", " ", "m", "y", "p", "r", "o", "g", " ", "-", "-", "f", "l", "a", "g", "=", "\"", "a", ",", "b", "\"">> }

KeywordPrefixes ==
    { <<"b", "i", "n", "d", " ", "=">>, <<"b", "i", "n", "d", "=">>, <<"b", "i", "n", "d", "e", " ", "=">>, <<"b", "i", "n", "d", "m", " ", "=">>, <<"b", "i", "n", "d", "l", " ", "=">>, <<"u", "n", "b", "i", "n", "d", " ", "=">>,
      <<"#", " ", "b", "i", "n", "d", " ", "=">>, <<" ", " ", "b", "i", "n", "d", " ", "=">>, <<"#">>, << >> }

KeywordBodies ==
    { <<" ", "S", "U", "P", "E", "R", ",", " ", "T", ",", " ", "e", "x", "e", "c", ",", " ", "k", "i", "t", "t", "y">>, <<" ", "S", "U", "P", "E", "R", ",", " ", "F", ",", " ", "f", "u", "l", "l", "s", "c", "r", "e", "e", "n", ",", " ", "0">>,
      <<" ", "S", "U", "P", "E", "R", ",", " ", "Q", ",", " ", "k", "i", "l", "l", "a", "c", "t", "i", "v", "e">>, << >> }

CommentSuffixes == { << >>, <<" ", "#", " ", "O", "p", "e", "n", " ", "t", "e", "r", "m", "i", "n", "a", "l">>, <<" ", "#">>, <<" ", "#", " ", " ">> }

Lines ==
    ExampleLines
      \cup { <<"b", "i", "n", "d", " ", "=">> \o b : b \in Bodies }
      \cup { p \o b \o s : p \in KeywordPrefixes, b \in KeywordBodies, s \in CommentSuffixes }

\* config.categories, in each order a HashMap of them may iterate.
Category(n, kws) == [name |-> n, keywords |-> kws]

CategoryOrders ==
    LET apps == Category(<<"A", "p", "p", "s">>, << <<"k", "i", "t", "t", "y">> >>)
        windows == Category(<<"W", "i", "n", "d", "o", "w", "s">>, << <<"K", "i", "l", "l">>, <<"e", "x", "e", "c">> >>)
    IN { << >>, <<apps>>, <<apps, windows>>, <<windows, apps>> }

InitParse ==
    /\ NoSession
    /\ categories \in CategoryOrders
    /\ line \in Lines
    /\ binding = None
    /\ parse_pc = "line"
    /\ MainIdle

ParseLine ==
    /\ parse_pc = "line"
    /\ binding' = ParseFileLine(line, categories)
    /\ parse_pc' = "parsed"
    /\ UNCHANGED <<categories, line>>
    /\ UNCHANGED vars
    /\ UNCHANGED mainvars

NextParse == ParseLine

SpecParse == InitParse /\ [][NextParse]_allvars

(***************************************************************************)
(* The program from main to exit (main.rs 22-37): load the configuration,  *)
(* resolve the configured paths (config.rs 284-311), parse every resolved  *)
(* file (parser.rs 25-57), construct the session and run it (tui.rs        *)
(* 67-88).  What the session does between entering and leaving run_app is  *)
(* the specification Spec; here run_app is its three ways to return.       *)
(*                                                                         *)
(* A configured file is missing, or exists and cannot be read, or exists   *)
(* and has lines.  error is the step whose error main returns, "none"      *)
(* while there is none.                                                    *)
(***************************************************************************)
MaxFiles == 2          \* most configured files

Missing == [exists |-> FALSE, content |-> None]
Unreadable == [exists |-> TRUE, content |-> None]
Readable(c) == [exists |-> TRUE, content |-> Some(c)]

FileContents ==
    LET kill == <<"b", "i", "n", "d", " ", "=", " ", "S", "U", "P", "E", "R", ",", " ", "Q", ",", " ", "k", "i", "l", "l", "a", "c", "t", "i", "v", "e">>
        term == <<"b", "i", "n", "d", " ", "=", " ", "$", "m", "a", "i", "n", "M", "o", "d", ",", " ", "R", "e", "t", "u", "r", "n", ",", " ", "e", "x", "e", "c", ",", " ", "k", "i", "t", "t", "y", " ", "#", " ", "O", "p", "e", "n", " ", "t", "e", "r", "m", "i", "n", "a", "l">>
        note == <<"#", " ", "w", "i", "n", "d", "o", "w", " ", "k", "e", "y", "s">>
        unbind == <<"u", "n", "b", "i", "n", "d", " ", "=", " ", "S", "U", "P", "E", "R", ",", " ", "Q">>
    IN { << >>, <<kill>>, <<note>>, <<kill, term>>, <<term, note, kill>>,
         <<unbind, term>> }

FilePool == { Missing, Unreadable } \cup { Readable(c) : c \in FileContents }

InitMain ==
    /\ NoSession
    /\ categories \in CategoryOrders
    /\ line = << >>
    /\ binding = None
    /\ parse_pc = "idle"
    /\ files \in SeqsUpTo(FilePool, MaxFiles)
    /\ main_pc = "load"
    /\ resolved_paths = << >>
    /\ path_idx = 0
    /\ records = << >>
    /\ parse_result = [status |-> "pending", keybindings |-> << >>]
    /\ raw_mode = FALSE
    /\ alt_screen = FALSE
    /\ result = "pending"
    /\ error = "none"

MainFrame == UNCHANGED vars /\ UNCHANGED <<categories, line, binding, parse_pc, files>>

\* main returns the error of the step that failed (the ? operator).
Fail(step) ==
    /\ error' = step
    /\ main_pc' = "exit"

\* Config::load (main.rs 26; config.rs 243-282).
LoadConfig(ok) ==
    /\ main_pc = "load"
    /\ IF ok THEN main_pc' = "resolve" /\ error' = error
             ELSE Fail("load_config")
    /\ UNCHANGED <<resolved_paths, path_idx, records, parse_result, raw_mode,
                   alt_screen, result>>
    /\ MainFrame

\* The files that exist, in the configured order (config.rs 290-304).
RECURSIVE ExistingFiles(_)
ExistingFiles(fs) ==
    IF fs = << >> THEN << >>
    ELSE (IF Head(fs).exists THEN <<Head(fs)>> ELSE << >>) \o ExistingFiles(Tail(fs))

\* Mutant of ResolveError: an empty list of paths is no error.
ResolveErrorNever(paths) == "none"

\* config.rs 306-308.
ResolveError(paths) == IF paths = << >> THEN "no_files" ELSE "none"

\* resolve_hyprland_paths (config.rs 284-311), called by parse (parser.rs 26).
ResolvePaths(config_dir) ==
    /\ main_pc = "resolve"
    /\ IF ~config_dir
       THEN Fail("config_dir") /\ UNCHANGED resolved_paths
       ELSE IF ResolveError(ExistingFiles(files)) /= "none"
       THEN Fail(ResolveError(ExistingFiles(files))) /\ UNCHANGED resolved_paths
       ELSE /\ resolved_paths' = ExistingFiles(files)
            /\ main_pc' = "parse"
            /\ error' = error
    /\ parse_result' =
          IF main_pc' = "exit" THEN [status |-> "Err", keybindings |-> << >>]
                               ELSE parse_result
    /\ UNCHANGED <<path_idx, records, raw_mode, alt_screen, result>>
    /\ MainFrame

\* The loop of parse_file over the lines (parser.rs 41-56).
RECURSIVE ParseLines(_, _)
ParseLines(ls, cats) ==
    IF ls = << >> THEN << >>
    ELSE ParseFileLine(Head(ls), cats) \o ParseLines(Tail(ls), cats)

\* Mutant of parse_file: a file that cannot be read counts as an empty one.
parse_file_skipping_unreadable(file, cats) ==
    IF file.content = None THEN [status |-> "Ok", keybindings |-> << >>]
    ELSE [status |-> "Ok", keybindings |-> ParseLines(Unwrap(file.content), cats)]

\* parse_file (parser.rs 37-57).
parse_file(file, cats) ==
    IF file.content = None THEN [status |-> "Err", keybindings |-> << >>]
    ELSE [status |-> "Ok", keybindings |-> ParseLines(Unwrap(file.content), cats)]

\* One iteration of parse's loop over the paths (parser.rs 29-32).
ParseNextFile ==
    /\ main_pc = "parse"
    /\ path_idx < Len(resolved_paths)
    /\ LET bindings == parse_file(resolved_paths[path_idx + 1], categories)
       IN IF bindings.status = "Err"
          THEN /\ Fail("read_file")
               /\ parse_result' = [status |-> "Err", keybindings |-> << >>]
               /\ records' = << >>
               /\ UNCHANGED path_idx
          ELSE /\ records' = records \o bindings.keybindings
               /\ path_idx' = path_idx + 1
               /\ UNCHANGED <<main_pc, error, parse_result>>
    /\ UNCHANGED <<resolved_paths, raw_mode, alt_screen, result>>
    /\ MainFrame

\* parse returns Ok(keybindings) (parser.rs 34); main constructs the session
\* and calls run (main.rs 33-34).
ParseReturns ==
    /\ main_pc = "parse"
    /\ path_idx = Len(resolved_paths)
    /\ parse_result' = [status |-> "Ok", keybindings |-> records]
    /\ main_pc' = "enable_raw"
    /\ UNCHANGED <<resolved_paths, path_idx, records, raw_mode, alt_screen,
                   result, error>>
    /\ MainFrame

\* enable_raw_mode()? (tui.rs 69).
EnableRawMode(ok) ==
    /\ main_pc = "enable_raw"
    /\ IF ok THEN raw_mode' = TRUE /\ main_pc' = "enter_alt" /\ error' = error
             ELSE raw_mode' = raw_mode /\ Fail("enable_raw")
    /\ UNCHANGED <<resolved_paths, path_idx, records, parse_result, alt_screen,
                   result>>
    /\ MainFrame

\* execute!(stdout, EnterAlternateScreen, EnableMouseCapture)? (tui.rs 71).
\* A failed write may or may not have switched the screen.
EnterAlternateScreen(ok, switched) ==
    /\ main_pc = "enter_alt"
    /\ IF ok THEN alt_screen' = TRUE /\ main_pc' = "terminal_new" /\ error' = error
             ELSE alt_screen' = switched /\ Fail("enter_alt")
    /\ UNCHANGED <<resolved_paths, path_idx, records, parse_result, raw_mode,
                   result>>
    /\ MainFrame

\* Terminal::new(backend)? (tui.rs 73).
TerminalNew(ok) ==
    /\ main_pc = "terminal_new"
    /\ IF ok THEN main_pc' = "run_app" /\ error' = error
             ELSE Fail("terminal_new")
    /\ UNCHANGED <<resolved_paths, path_idx, records, parse_result, raw_mode,
                   alt_screen, result>>
    /\ MainFrame

\* let result = self.run_app(&mut terminal) (tui.rs 76): the loop returns
\* Ok(()) after a break, or the error of a draw or of a read (tui.rs 92-94).
RunAppOutcomes == {"Ok", "draw", "read"}

RunApp(outcome) ==
    /\ main_pc = "run_app"
    /\ result' = outcome
    /\ main_pc' = "disable_raw"
    /\ UNCHANGED <<resolved_paths, path_idx, records, parse_result, raw_mode,
                   alt_screen, error>>
    /\ MainFrame

\* disable_raw_mode()? (tui.rs 79).
DisableRawMode(ok) ==
    /\ main_pc = "disable_raw"
    /\ IF ok THEN raw_mode' = FALSE /\ main_pc' = "leave_alt" /\ error' = error
             ELSE raw_mode' = raw_mode /\ Fail("disable_raw")
    /\ UNCHANGED <<resolved_paths, path_idx, records, parse_result, alt_screen,
                   result>>
    /\ MainFrame

\* execute!(terminal.backend_mut(), LeaveAlternateScreen, DisableMouseCapture)?
\* (tui.rs 80-84).  A failed write may or may not have switched back.
LeaveAlternateScreen(ok, switched) ==
    /\ main_pc = "leave_alt"
    /\ IF ok THEN alt_screen' = FALSE /\ main_pc' = "show_cursor" /\ error' = error
             ELSE alt_screen' = ~switched /\ Fail("leave_alt")
    /\ UNCHANGED <<resolved_paths, path_idx, records, parse_result, raw_mode,
                   result>>
    /\ MainFrame

\* terminal.show_cursor()? and the return of result (tui.rs 85-87; main.rs
\* 34-36).
ShowCursor(ok) ==
    /\ main_pc = "show_cursor"
    /\ IF ok THEN error' = (IF result = "Ok" THEN "none" ELSE result) /\ main_pc' = "exit"
             ELSE Fail("show_cursor")
    /\ UNCHANGED <<resolved_paths, path_idx, records, parse_result, raw_mode,
                   alt_screen, result>>
    /\ MainFrame

NextMain ==
    \/ \E ok \in BOOLEAN : LoadConfig(ok)
    \/ \E config_dir \in BOOLEAN : ResolvePaths(config_dir)
    \/ ParseNextFile
    \/ ParseReturns
    \/ \E ok \in BOOLEAN : EnableRawMode(ok)
    \/ \E ok \in BOOLEAN, switched \in BOOLEAN : EnterAlternateScreen(ok, switched)
    \/ \E ok \in BOOLEAN : TerminalNew(ok)
    \/ \E outcome \in RunAppOutcomes : RunApp(outcome)
    \/ \E ok \in BOOLEAN : DisableRawMode(ok)
    \/ \E ok \in BOOLEAN, switched \in BOOLEAN : LeaveAlternateScreen(ok, switched)
    \/ \E ok \in BOOLEAN : ShowCursor(ok)

SpecMain == InitMain /\ [][NextMain]_allvars

(***************************************************************************)
(* Properties of the selection machine and the filter.                     *)
(*                                                                         *)
(* A state with pc = "draw" and lastKey = k is the state right after the   *)
(* handler of key press k returned, before the next draw.                  *)
(***************************************************************************)
NavigationKeys == {"Down", "j", "Up", "k"}
FilterKeys == QueryChars \cup {"Backspace"}

AfterKey(ks) == pc = "draw" /\ ~show_help /\ lastKey \in ks

\* A step of run_app that handles a press of key k.
HandlesKey(ks) == pc = "read" /\ pc' /= "read" /\ lastKey' \in ks

SelectedColumns == { c \in 1..Len(column_lists) : IsSome(column_lists[c]) }

ItemsPerColumn == (Len(filtered_keybindings) + columns - 1) \div columns

\* Exactly one column cursor is set, and column * items_per_column + row is
\* the flat cursor.
OneColumnOwnsCursor ==
    /\ Cardinality(SelectedColumns) = 1
    /\ IsSome(list_state)
    /\ \A c \in SelectedColumns :
          (c - 1) * ItemsPerColumn + Unwrap(column_lists[c]) = Unwrap(list_state)

\* C1 (as claimed): after any navigation or filter event, the filter events
\* that leave an empty view included, exactly one per-column cursor is
\* non-empty and column index * items_per_column + row = flat cursor.
C1_ColumnInvariantAfterEveryEvent ==
    AfterKey(NavigationKeys \cup FilterKeys) => OneColumnOwnsCursor

\* C1 (amended): after a navigation or filter event that leaves a non-empty
\* view, exactly one per-column cursor is non-empty and column index *
\* items_per_column + row = flat cursor; after a filter event that leaves an
\* empty view no per-column cursor is set and the flat cursor is None.
C1_ColumnInvariantNonEmptyView ==
    /\ (AfterKey(NavigationKeys \cup FilterKeys) /\ filtered_keybindings /= << >>)
          => OneColumnOwnsCursor
    /\ (AfterKey(FilterKeys) /\ filtered_keybindings = << >>)
          => (SelectedColumns = {} /\ list_state = None)

\* C1 witness: a navigation event has put the cursor in the second column.
C1_Witness ==
    /\ AfterKey(NavigationKeys)
    /\ columns = 2
    /\ Len(filtered_keybindings) = 3
    /\ list_state = Some(2)
    /\ SelectedColumns = {2}

\* C2 (as claimed): in every state of the running session with a selection
\* in a non-empty view, resizes included, the per-column cursors are the ones
\* derived from the flat cursor: column cursor / items_per_column holds row
\* cursor mod items_per_column, every other column cursor is clear.
C2_ColumnCursorsDerivedFromFlatCursor ==
    (pc \in {"read", "draw"} /\ IsSome(list_state) /\ filtered_keybindings /= << >>)
        => /\ Len(column_lists) = columns
           /\ \A c \in 1..columns :
                 column_lists[c] =
                    IF c - 1 = Unwrap(list_state) \div ItemsPerColumn
                    THEN Some(Unwrap(list_state) % ItemsPerColumn)
                    ELSE None

\* C3 (as claimed): the flat cursor is None exactly when the Filtered View is
\* empty, and otherwise indexes the view.
C3_CursorMatchesView ==
    /\ (list_state = None) <=> (filtered_keybindings = << >>)
    /\ IsSome(list_state) => Unwrap(list_state) \in 0..(Len(filtered_keybindings) - 1)

\* C4 (as claimed): on a non-empty view of length len with cursor c, Advance
\* sets the cursor to (c + 1) mod len and Retreat to (c - 1 + len) mod len;
\* on an empty view both leave the cursor unchanged, at None.
C4_NavigationWraps ==
    [][ /\ (HandlesKey({"Down", "j"}) /\ ~show_help) =>
             IF filtered_keybindings = << >>
             THEN list_state' = list_state /\ list_state' = None
             ELSE /\ IsSome(list_state)
                  /\ list_state' =
                        Some((Unwrap(list_state) + 1) % Len(filtered_keybindings))
        /\ (HandlesKey({"Up", "k"}) /\ ~show_help) =>
             IF filtered_keybindings = << >>
             THEN list_state' = list_state /\ list_state' = None
             ELSE /\ IsSome(list_state)
                  /\ list_state' =
                        Some((Unwrap(list_state) - 1 + Len(filtered_keybindings))
                                 % Len(filtered_keybindings))
      ]_vars

\* C5 (as claimed): the Filtered View never holds more than max_results
\* entries, whatever the query.
C5_ViewWithinMaxResults ==
    Len(filtered_keybindings) <= max_results

\* C5 (amended): with a non-empty query the Filtered View holds at most
\* max_results entries; with the empty query it holds every record, however
\* many there are.
C5_QueryViewWithinMaxResults ==
    /\ search_query /= << >> => Len(filtered_keybindings) <= max_results
    /\ search_query = << >> => Len(filtered_keybindings) = Len(keybindings)

\* C5 witness: a non-empty query matches more records than max_results and
\* the view holds max_results of them.
C5_Witness ==
    /\ search_query /= << >>
    /\ max_results >= 1
    /\ Len(filtered_keybindings) = max_results
    /\ Cardinality({ n \in 1..Len(keybindings) :
           IsSome(fuzzy_match(search_text(keybindings[n]), search_query)) }) > max_results

\* C6: every filter event leaves the flat cursor at 0 when the new view is
\* non-empty and at None when it is empty.
C6_FilterResetsCursor ==
    AfterKey(FilterKeys) =>
        list_state = IF filtered_keybindings /= << >> THEN Some(0) ELSE None

\* C6 witness: typing a character has left a non-empty view of fewer
\* entries than there are records, with the cursor on its first entry.
C6_Witness ==
    /\ AfterKey(QueryChars)
    /\ filtered_keybindings /= << >>
    /\ Len(filtered_keybindings) < Len(keybindings)
    /\ list_state = Some(0)

\* C7: whenever the live query is empty, the Filtered View is every record
\* paired with its own index, in record order.
C7_EmptyQueryIdentityView ==
    search_query = << >> =>
        /\ Len(filtered_keybindings) = Len(keybindings)
        /\ \A n \in 1..Len(keybindings) :
              filtered_keybindings[n] = <<n - 1, keybindings[n]>>

\* C7 witness: a delete has left the query empty, and there are more
\* records than max_results.
C7_Witness ==
    /\ AfterKey({"Backspace"})
    /\ search_query = << >>
    /\ Len(keybindings) > max_results
    /\ Len(filtered_keybindings) = Len(keybindings)

\* The score of each of the first n records against the live query, as a
\* sequence of Options.
RECURSIVE RecordScores(_)
RecordScores(n) ==
    IF n = 0 THEN << >>
    ELSE Append(RecordScores(n - 1),
                fuzzy_match(search_text(keybindings[n]), search_query))

\* The records (1-based) with a score in sc.
Matching(sc) == { n \in 1..Len(sc) : IsSome(sc[n]) }

\* The records (1-based) the Filtered View lists.
KeptRecords == { filtered_keybindings[m][1] + 1 : m \in 1..Len(filtered_keybindings) }

RankOf(sc, n) ==
    Cardinality({ k \in Matching(sc) :
        \/ Unwrap(sc[k]) > Unwrap(sc[n])
        \/ Unwrap(sc[k]) = Unwrap(sc[n]) /\ k < n })

\* C9: the Filtered View is one fixed function of the record list, the query
\* and max_results: in every reachable state, however the query was reached
\* and whatever the cursor and the column layout are, the view is every
\* record in order when the query is empty, and otherwise the matching
\* records of rank below max_results, in rank order.
C9_ViewFunctionOfQuery ==
    /\ search_query = << >> =>
          filtered_keybindings = [n \in 1..Len(keybindings) |-> <<n - 1, keybindings[n]>>]
    /\ search_query /= << >> =>
          LET sc == RecordScores(Len(keybindings))
          IN /\ Len(filtered_keybindings) =
                   Cardinality({ n \in Matching(sc) : RankOf(sc, n) < max_results })
             /\ \A m \in 1..Len(filtered_keybindings) :
                   /\ filtered_keybindings[m][1] + 1 \in Matching(sc)
                   /\ RankOf(sc, filtered_keybindings[m][1] + 1) = m - 1
                   /\ filtered_keybindings[m][2] = keybindings[filtered_keybindings[m][1] + 1]

\* C9 witness: a query has been reached again by a delete, in a two-column
\* layout; it matches more records than the view may hold, and the two
\* listed score the same.
C9_Witness ==
    /\ AfterKey({"Backspace"})
    /\ search_query /= << >>
    /\ columns = 2
    /\ Len(filtered_keybindings) = 2
    /\ LET sc == RecordScores(Len(keybindings))
       IN /\ Cardinality(Matching(sc)) > Len(filtered_keybindings)
          /\ sc[filtered_keybindings[1][1] + 1] = sc[filtered_keybindings[2][1] + 1]

\* C10 (as claimed): with the help overlay hidden, a press of any character
\* key appends that character to the query and re-filters, and a press of
\* the delete key removes the last query character and re-filters.
C10_EveryCharacterKeyAppends ==
    [][ /\ (HandlesKey(CharKeys) /\ ~show_help) =>
             /\ search_query' = Append(search_query, lastKey')
             /\ filtered_keybindings' = FilteredView(search_query')
        /\ (HandlesKey({"Backspace"}) /\ ~show_help) =>
             /\ search_query' = SubSeq(search_query, 1, Len(search_query) - 1)
             /\ filtered_keybindings' = FilteredView(search_query')
      ]_vars

\* C10 (amended): with the help overlay hidden, a press of a character key
\* other than q, ?, j and k appends that character to the query and
\* re-filters, and a press of the delete key removes the last query character
\* (if any) and re-filters; a press of q, ?, j or k leaves the query and the
\* view as they are (q ends the loop, ? toggles the overlay, j and k move the
\* cursor).
C10_TypedCharacterAppends ==
    [][ /\ (HandlesKey(CharKeys \ {"q", "?", "j", "k"}) /\ ~show_help) =>
             /\ search_query' = Append(search_query, lastKey')
             /\ filtered_keybindings' = FilteredView(search_query')
             /\ pc' = "draw"
        /\ (HandlesKey({"Backspace"}) /\ ~show_help) =>
             /\ search_query' = SubSeq(search_query, 1, Len(search_query) - 1)
             /\ filtered_keybindings' = FilteredView(search_query')
             /\ pc' = "draw"
        /\ (HandlesKey({"q", "?", "j", "k"}) /\ ~show_help) =>
             /\ search_query' = search_query
             /\ filtered_keybindings' = filtered_keybindings
             /\ (lastKey' = "q") <=> (pc' = "done")
             /\ (lastKey' = "?") <=> show_help'
      ]_vars

\* C10 witness: a character was typed onto a non-empty query.
C10_Witness ==
    /\ AfterKey(QueryChars)
    /\ Len(search_query) = 2
    /\ search_query[2] = lastKey
    /\ search_query[1] /= lastKey

\* C11: while the help overlay is shown, no key press changes the query, the
\* Filtered View, the flat cursor or the per-column cursors, and none ends
\* the loop, the quit key included; the overlay closes on ?, F1 and Escape
\* and on no other key.
C11_HelpSuspendsKeys ==
    [][ (HandlesKey(Keys) /\ show_help) =>
          /\ search_query' = search_query
          /\ filtered_keybindings' = filtered_keybindings
          /\ list_state' = list_state
          /\ column_lists' = column_lists
          /\ columns' = columns
          /\ pc' = "draw"
          /\ show_help' = (lastKey' \notin {"?", "F1", "Esc"})
      ]_vars

\* C11 witness: the quit key was pressed while the overlay was shown, with a
\* query typed and the cursor moved before, and the loop goes on.
C11_Witness ==
    /\ pc = "draw"
    /\ show_help
    /\ lastKey = "q"
    /\ search_query /= << >>
    /\ list_state = Some(1)

\* C12 (as claimed): a press of Escape never ends the loop, whether the help
\* overlay is shown or hidden; only the quit key q does.
C12_EscapeNeverQuits ==
    [][ /\ HandlesKey({"Esc"}) => pc' /= "done"
        /\ (HandlesKey(Keys) /\ pc' = "done") => lastKey' = "q"
      ]_vars

(***************************************************************************)
(* Properties of the layout and of the record list.                        *)
(***************************************************************************)
\* The least n with n * b >= a.
CeilDiv(a, b) == CHOOSE n \in 0..a : n * b >= a /\ (n = 0 \/ (n - 1) * b < a)

\* max(1, floor((width - margin) / min_column_width)).
ExpectedColumns(width) ==
    LET q == (width - margin) \div min_column_width
    IN IF q > 1 THEN q ELSE 1

\* C23: a draw at any width, a width below the margin included, leaves the
\* column count max(1, floor((width - 4) / 50)), and the items per column
\* are ceil(filtered count / column count).
C23_ColumnCountAndItemsPerColumn ==
    [][ \A w \in TermWidths :
          DrawMain(w) =>
            /\ columns' = ExpectedColumns(w)
            /\ get_items_per_column(Len(filtered_keybindings'), columns') =
                  CeilDiv(Len(filtered_keybindings'), columns')
      ]_vars

\* C23 witness: a frame drawn in the widest layout with more entries than
\* columns.
C23_Witness ==
    /\ pc = "read"
    /\ ~show_help
    /\ columns = MaxColumns
    /\ Len(filtered_keybindings) > columns

ViewEntriesAreRecords ==
    /\ \A n \in 1..Len(filtered_keybindings) :
          /\ filtered_keybindings[n][1] \in 0..(Len(keybindings) - 1)
          /\ filtered_keybindings[n][2] = keybindings[filtered_keybindings[n][1] + 1]
    /\ \A n, m \in 1..Len(filtered_keybindings) :
          filtered_keybindings[n][1] = filtered_keybindings[m][1] => n = m

\* C25: no step of the session changes the records or their order, and
\* every entry (i, kb) of the view has kb = records[i], the i distinct.
C25_RecordsImmutable ==
    /\ []ViewEntriesAreRecords
    /\ [][keybindings' = keybindings]_vars

\* C25 witness: after a filter event the view starts with the second
\* record and has not all the records.
C25_Witness ==
    /\ AfterKey(FilterKeys)
    /\ filtered_keybindings /= << >>
    /\ filtered_keybindings[1][1] = 1
    /\ Len(filtered_keybindings) < Len(keybindings)

\* The flat indices of column c (0-based) of the rendered layout:
\* [c * items_per_column, min((c + 1) * items_per_column, filtered_count)).
ColumnRange(c) ==
    LET count == Len(filtered_keybindings)
        ipc == get_items_per_column(count, columns)
    IN { i \in 0..(count - 1) : c * ipc <= i /\ i < (c + 1) * ipc }

\* C26: the column ranges of the layout are pairwise disjoint and cover
\* exactly [0, filtered_count); for every cursor in that interval the
\* column computed for it is less than the column count and is the column
\* whose range holds the cursor.
C26_ColumnRangesPartitionView ==
    LET count == Len(filtered_keybindings)
    IN /\ \A c, d \in 0..(columns - 1) :
             c /= d => ColumnRange(c) \cap ColumnRange(d) = {}
       /\ UNION { ColumnRange(c) : c \in 0..(columns - 1) } = 0..(count - 1)
       /\ \A cursor \in 0..(count - 1) :
             /\ get_current_column(Some(cursor), count, columns) < columns
             /\ cursor \in ColumnRange(get_current_column(Some(cursor), count, columns))

\* C26 witness: three entries in two columns, the cursor on the last one,
\* which the second column owns.
C26_Witness ==
    /\ AfterKey(NavigationKeys)
    /\ columns = 2
    /\ Len(filtered_keybindings) = 3
    /\ list_state = Some(2)
    /\ column_lists = <<None, Some(0)>>

\* C30: in every state of the session there are as many column cursors as
\* columns, at least one column, and at most one column cursor is set.
C30_ColumnCursorsWellFormed ==
    /\ Len(column_lists) = columns
    /\ columns >= 1
    /\ Cardinality(SelectedColumns) <= 1

\* C30 witness: a filter event left an empty view in a layout of two
\* columns, and no column cursor is set.
C30_Witness ==
    /\ AfterKey(FilterKeys)
    /\ columns = 2
    /\ filtered_keybindings = << >>
    /\ column_lists = <<None, None>>

(***************************************************************************)
(* Properties of the program around the session.                           *)
(***************************************************************************)
\* The errors main returns before run is called.
StartupErrors == {"load_config", "config_dir", "no_files", "read_file"}

\* run was called and has returned to main, which has returned.
RunReturned == main_pc = "exit" /\ error \notin StartupErrors

\* C13 (as claimed): whenever run returns after raw mode was enabled, raw
\* mode is off and the alternate screen is left, on the failure paths too
\* (all that a failed restore step can leave behind is its own half).
C13_TerminalRestoredOnEveryPath ==
    (RunReturned /\ error /= "enable_raw") =>
        /\ raw_mode => error = "disable_raw"
        /\ alt_screen => error = "leave_alt"

\* Positions of main at which the terminal is set up or the loop runs.
InteractivePositions ==
    {"enter_alt", "terminal_new", "run_app", "disable_raw", "leave_alt", "show_cursor"}

\* The configured files for which the parse pass cannot succeed: none
\* exists, or one that exists cannot be read.
NoUsableFiles(fs) ==
    \/ \A n \in 1..Len(fs) : ~fs[n].exists
    \/ \E n \in 1..Len(fs) : fs[n].exists /\ fs[n].content = None

\* C14: the loop is entered, and the terminal switched, only after the
\* resolution found a file and every resolved file was read and parsed;
\* when it finds none or a read fails the program ends with that error and
\* the terminal is never switched.
C14_LoopOnlyAfterSuccessfulParse ==
    /\ (main_pc \in InteractivePositions \/ raw_mode \/ alt_screen) =>
          /\ resolved_paths /= << >>
          /\ \A n \in 1..Len(resolved_paths) : resolved_paths[n].content /= None
          /\ path_idx = Len(resolved_paths)
          /\ parse_result.status = "Ok"
    /\ NoUsableFiles(files) =>
          /\ ~raw_mode
          /\ ~alt_screen
          /\ main_pc \notin InteractivePositions
          /\ main_pc = "exit" => error \in StartupErrors

\* C14 witness: the loop is entered with one configured file missing and
\* the other one read and parsed into records.
C14_Witness ==
    /\ main_pc = "run_app"
    /\ raw_mode
    /\ alt_screen
    /\ Len(files) = 2
    /\ Len(resolved_paths) = 1
    /\ parse_result.keybindings /= << >>

\* The lines of the files, one file after the other.
RECURSIVE AllLines(_)
AllLines(fs) ==
    IF fs = << >> THEN << >> ELSE Unwrap(Head(fs).content) \o AllLines(Tail(fs))

\* C15: once the files are resolved, parse returns an error and no record
\* when a resolved file cannot be read; otherwise it returns the records of
\* the lines of every resolved file, in file order and line order, the
\* lines that yield no record left out.
C15_ParseAllOrNothing ==
    (parse_result.status /= "pending" /\ resolved_paths /= << >>) =>
        IF \E n \in 1..Len(resolved_paths) : resolved_paths[n].content = None
        THEN /\ parse_result.status = "Err"
             /\ parse_result.keybindings = << >>
             /\ records = << >>
             /\ error = "read_file"
        ELSE /\ parse_result.status = "Ok"
             /\ parse_result.keybindings = ParseLines(AllLines(resolved_paths), categories)

\* C15 witness: the second file cannot be read after the first one gave
\* records, and parse returned the error.
C15_Witness ==
    /\ parse_result.status = "Err"
    /\ Len(resolved_paths) = 2
    /\ resolved_paths[1].content /= None
    /\ ParseLines(Unwrap(resolved_paths[1].content), categories) /= << >>
    /\ resolved_paths[2].content = None
    /\ path_idx = 1

(***************************************************************************)
(* Properties of the line parser.                                          *)
(*                                                                         *)
(* A directive line is a line that, trimmed, starts with one of the three  *)
(* keyword forms followed by '='; its body is what follows the '=' up to   *)
(* the first comment marker.  The positional fields of a body are its      *)
(* comma-separated fields, blank ones included, where a comma inside a     *)
(* quoted span or inside parentheses does not separate.                    *)
(***************************************************************************)
LineParsed == parse_pc = "parsed"

DirectiveLine(l) ==
    \E kw \in { <<"b", "i", "n", "d">>, <<"b", "i", "n", "d", "e">>, <<"b", "i", "n", "d", "m">> } :
        /\ starts_with(trim(l), kw)
        /\ starts_with(trim(strip_prefix(trim(l), kw)), <<"=">>)

Body(l) == BindContent(BindPart(trim(l)))

RECURSIVE FieldsByPositionFrom(_, _, _, _, _, _)
FieldsByPositionFrom(content, i, fields, current, quoted, depth) ==
    IF i > Len(content) THEN Append(fields, trim(current))
    ELSE LET ch == content[i]
         IN CASE ch = "\"" ->
                   FieldsByPositionFrom(content, i + 1, fields, Append(current, ch),
                                        ~quoted, depth)
              [] ch = "(" ->
                   FieldsByPositionFrom(content, i + 1, fields, Append(current, ch),
                                        quoted, depth + 1)
              [] ch = ")" ->
                   FieldsByPositionFrom(content, i + 1, fields, Append(current, ch),
                                        quoted, IF depth > 0 THEN depth - 1 ELSE 0)
              [] ch = "," /\ ~quoted /\ depth = 0 ->
                   FieldsByPositionFrom(content, i + 1, Append(fields, trim(current)),
                                        << >>, quoted, depth)
              [] OTHER ->
                   FieldsByPositionFrom(content, i + 1, fields, Append(current, ch),
                                        quoted, depth)

FieldsByPosition(content) == FieldsByPositionFrom(content, 1, << >>, << >>, FALSE, 0)

\* C16 (as claimed): a directive line yields one record exactly when its body
\* has at least three fields counted by position, blank ones included, and
\* the third is not blank; it yields none otherwise.
C16_RecordIffThreePositionalFields ==
    (LineParsed /\ DirectiveLine(line)) =>
        LET fields == FieldsByPosition(Body(line))
        IN IsSome(binding) <=> (Len(fields) >= 3 /\ fields[3] /= << >>)

\* C17 (as claimed): a directive line with a blank modifiers field, a key
\* field K and a non-blank action field A yields a record whose key is K
\* (formatted) and whose action starts with A.
C17_EmptyModifiersKeepPositions ==
    (LineParsed /\ DirectiveLine(line)) =>
        LET fields == FieldsByPosition(Body(line))
        IN (Len(fields) >= 3 /\ fields[1] = << >> /\ fields[2] /= << >>
              /\ fields[3] /= << >>) =>
             /\ IsSome(binding)
             /\ Unwrap(binding).key = format_key_combination(fields[2])
             /\ starts_with(Unwrap(binding).action, fields[3])

\* The spans of the offered lines that hold a comma in quotes or in a pair
\* of parentheses.
ProtectedSpans == { <<"\"", "a", ",", "b", "\"">>, <<"(", "a", ",", "b", ")">> }

\* C18 (as claimed): a comma inside a quoted span or inside matched
\* parentheses never delimits a field, so every such span of the body lies
\* whole in one field; the quoted example splits into exactly four fields.
C18_ProtectedCommaNeverSplits ==
    (LineParsed /\ DirectiveLine(line)) =>
        LET parts == split_bind_parts(Body(line))
        IN /\ \A span \in ProtectedSpans :
                contains(Body(line), span) =>
                    \E n \in 1..Len(parts) : contains(parts[n], span)
           /\ line = <<"b", "i", "n", "d", " ", "=", " ", "S", "U", "P", "E", "R", ",", " ", "R", ",", " ", "e", "x", "e", "c", ",", " ", "m", "y", "p", "r", "o", "g", " ", "-", "-", "f", "l", "a", "g", "=", "\"", "a", ",", "b", "\"">> => Len(parts) = 4

\* C19: no record with an empty action is ever produced: a line yields no
\* record or a record whose action is a non-empty string.
C19_NoEmptyAction ==
    (LineParsed /\ IsSome(binding)) => Unwrap(binding).action /= << >>

\* C19 witness: a record was produced from a body whose third field by
\* position is blank.
C19_Witness ==
    /\ LineParsed
    /\ DirectiveLine(line)
    /\ IsSome(binding)
    /\ Len(FieldsByPosition(Body(line))) > 3
    /\ FieldsByPosition(Body(line))[3] = << >>
    /\ Unwrap(binding).action /= << >>

\* The maximal runs of non-blank characters of s, in order.
TokenRuns(s) ==
    LET starts == { i \in 1..Len(s) :
                      s[i] \notin WhiteSpace /\ (i = 1 \/ s[i - 1] \in WhiteSpace) }
        EndOf(i) == CHOOSE j \in i..Len(s) :
                      /\ \A k \in i..j : s[k] \notin WhiteSpace
                      /\ (j = Len(s) \/ s[j + 1] \in WhiteSpace)
        Nth(n) == CHOOSE i \in starts : Cardinality({ j \in starts : j < i }) = n - 1
    IN [ n \in 1..Cardinality(starts) |-> SubSeq(s, Nth(n), EndOf(Nth(n))) ]

\* C20: the key of a record is the tokens of the modifiers and key fields,
\* placeholders replaced, joined with " + " (one token: unchanged); the two
\* lines of the specification give the records it states.
C20_KeyFormatting ==
    LineParsed =>
        /\ IsSome(binding) =>
             LET parts == split_bind_parts(Body(line))
                 joined == parts[1] \o <<" ">> \o parts[2]
                 replaced == replace(replace(joined, <<"$", "m", "a", "i", "n", "M", "o", "d">>, <<"S", "u", "p", "e", "r">>),
                                     <<"$", "s", "h", "i", "f", "t", "M", "o", "d">>, <<"S", "h", "i", "f", "t">>)
             IN Unwrap(binding).key = join(TokenRuns(replaced), <<" ", "+", " ">>)
        /\ line = <<"b", "i", "n", "d", " ", "=", " ", "S", "U", "P", "E", "R", " ", "S", "H", "I", "F", "T", ",", " ", "Q", ",", " ", "k", "i", "l", "l", "a", "c", "t", "i", "v", "e">> =>
             /\ IsSome(binding)
             /\ Unwrap(binding).key = <<"S", "U", "P", "E", "R", " ", "+", " ", "S", "H", "I", "F", "T", " ", "+", " ", "Q">>
        /\ (/\ line = <<"b", "i", "n", "d", " ", "=", " ", "$", "m", "a", "i", "n", "M", "o", "d", ",", " ", "R", "e", "t", "u", "r", "n", ",", " ", "e", "x", "e", "c", ",", " ", "k", "i", "t", "t", "y", " ", "#", " ", "O", "p", "e", "n", " ", "t", "e", "r", "m", "i", "n", "a", "l">>
            /\ categories = << Category(<<"A", "p", "p", "s">>, << <<"k", "i", "t", "t", "y">> >>) >>) =>
             /\ IsSome(binding)
             /\ Unwrap(binding).key = <<"S", "u", "p", "e", "r", " ", "+", " ", "R", "e", "t", "u", "r", "n">>
             /\ Unwrap(binding).action = <<"e", "x", "e", "c", ",", " ", "k", "i", "t", "t", "y">>
             /\ Unwrap(binding).description = <<"O", "p", "e", "n", " ", "t", "e", "r", "m", "i", "n", "a", "l">>
             /\ Unwrap(binding).category = <<"A", "p", "p", "s">>

\* C20 witness: the end-to-end line of the specification was parsed under
\* its category configuration.
C20_Witness ==
    /\ LineParsed
    /\ line = <<"b", "i", "n", "d", " ", "=", " ", "$", "m", "a", "i", "n", "M", "o", "d", ",", " ", "R", "e", "t", "u", "r", "n", ",", " ", "e", "x", "e", "c", ",", " ", "k", "i", "t", "t", "y", " ", "#", " ", "O", "p", "e", "n", " ", "t", "e", "r", "m", "i", "n", "a", "l">>
    /\ categories = << Category(<<"A", "p", "p", "s">>, << <<"k", "i", "t", "t", "y">> >>) >>
    /\ IsSome(binding)
    /\ Unwrap(binding).key = <<"S", "u", "p", "e", "r", " ", "+", " ", "R", "e", "t", "u", "r", "n">>

\* Two characters that are equal up to the case of a letter.
SameLetter(a, b) ==
    a = b \/ \E n \in 1..Len(UpperCase) : {a, b} = {UpperCase[n], LowerCase[n]}

\* kw occurs in text, the case of letters ignored.
OccursIgnoringCase(kw, text) ==
    \E i \in 0..(Len(text) - Len(kw)) :
        \A j \in 1..Len(kw) : SameLetter(text[i + j], kw[j])

\* The names of the categories with a keyword that occurs, the case of
\* letters ignored, in the action, params and description of the record of
\* the line.
MatchingCategories ==
    LET parts == split_bind_parts(Body(line))
        text == parts[3] \o <<" ">> \o Params(parts) \o <<" ">> \o Unwrap(binding).description
    IN { categories[n].name : n \in
           { m \in 1..Len(categories) :
               \E k \in 1..Len(categories[m].keywords) :
                   OccursIgnoringCase(categories[m].keywords[k], text) } }

\* C21: the category of a record is the name of the one matching category
\* when exactly one matches, "Other" when none does, and the name of one of
\* the matching categories when several do.
C21_CategoryResolution ==
    (LineParsed /\ IsSome(binding)) =>
        IF MatchingCategories = {}
        THEN Unwrap(binding).category = <<"O", "t", "h", "e", "r">>
        ELSE Unwrap(binding).category \in MatchingCategories

\* C21 witness: a record with exactly one matching category, matched by a
\* keyword written with a capital letter.
C21_Witness ==
    /\ LineParsed
    /\ IsSome(binding)
    /\ Len(categories) = 2
    /\ MatchingCategories = { <<"W", "i", "n", "d", "o", "w", "s">> }
    /\ Unwrap(binding).category = <<"W", "i", "n", "d", "o", "w", "s">>

\* C22: a line whose directive body begins with the keyword unbind never
\* yields a record, whatever follows the keyword.
C22_UnbindNeverYieldsRecord ==
    (LineParsed /\ starts_with(BindPart(trim(line)), <<"u", "n", "b", "i", "n", "d">>)) => binding = None

\* C22 witness: an unbind line with three fields and a comment was parsed.
C22_Witness ==
    /\ LineParsed
    /\ line = <<"u", "n", "b", "i", "n", "d", " ", "=", " ", "S", "U", "P", "E", "R", ",", " ", "Q", ",", " ", "k", "i", "l", "l", "a", "c", "t", "i", "v", "e", " ", "#", " ", "O", "p", "e", "n", " ", "t", "e", "r", "m", "i", "n", "a", "l">>
    /\ binding = None

\* The three keyword forms: plain, repeat and mouse.
KeywordForms == { <<"b", "i", "n", "d">>, <<"b", "i", "n", "d", "e">>, <<"b", "i", "n", "d", "m">> }

\* C27: a directive line written with any of the three keyword forms
\* yields what the same body yields after each of the other two: no record
\* in all three cases, or records equal in every field.
C27_KeywordFormsAlike ==
    LineParsed =>
        \A kw \in KeywordForms :
            (/\ starts_with(trim(line), kw)
             /\ starts_with(trim(strip_prefix(trim(line), kw)), <<"=">>)) =>
                \A other \in KeywordForms :
                    ParseFileLine(other \o strip_prefix(trim(line), kw), categories) = binding

\* C27 witness: a line in the mouse form gave a record.
C27_Witness ==
    /\ LineParsed
    /\ starts_with(line, <<"b", "i", "n", "d", "m", " ", "=">>)
    /\ IsSome(binding)
    /\ Unwrap(binding).raw_command = <<"b", "i", "n", "d", " ", "=", " ", "S", "U", "P", "E", "R", ",", " ", "T", ",", " ", "e", "x", "e", "c", ",", " ", "k", "i", "t", "t", "y">>

\* C28 (as claimed): the description of a record is the text after the
\* first comment marker, trimmed, when that text is not blank, and the
\* description generated from action and params in every other case: no
\* marker, or nothing but blanks after it.
C28_DescriptionFromCommentOrGenerated ==
    (LineParsed /\ IsSome(binding)) =>
        LET comment == Comment(trim(line))
            parts == split_bind_parts(Body(line))
        IN IF IsSome(comment) /\ Unwrap(comment) /= << >>
           THEN Unwrap(binding).description = Unwrap(comment)
           ELSE Unwrap(binding).description = generate_description(parts[3], Params(parts))

\* The fields of s that are not blank, in order.
RECURSIVE NonBlankFields(_)
NonBlankFields(s) ==
    IF s = << >> THEN << >>
    ELSE (IF Head(s) /= << >> THEN <<Head(s)>> ELSE << >>) \o NonBlankFields(Tail(s))

\* C29 (as claimed): a comma outside every quoted span and outside every
\* matched pair of parentheses always delimits a field, an unmatched ')'
\* earlier in the body notwithstanding: the fields the splitter returns are
\* the non-blank fields by position.
C29_TopLevelCommaAlwaysSplits ==
    (LineParsed /\ DirectiveLine(line)) =>
        split_bind_parts(Body(line)) = NonBlankFields(FieldsByPosition(Body(line)))

\* C31: a line whose first non-blank character is the comment marker never
\* yields a record, whether or not it holds the directive keyword.
C31_CommentLineNeverYieldsRecord ==
    (LineParsed /\ starts_with(trim(line), <<"#">>)) => binding = None

\* C31 witness: a full-line comment that embeds a whole directive went
\* past the comment test of parse_file and gave no record.
C31_Witness ==
    /\ LineParsed
    /\ line = <<"#", " ", "b", "i", "n", "d", " ", "=", " ", "S", "U", "P", "E", "R", ",", " ", "T", ",", " ", "e", "x", "e", "c", ",", " ", "k", "i", "t", "t", "y">>
    /\ contains(trim(line), <<"b", "i", "n", "d">>)
    /\ binding = None

====
